---- MODULE Spec2Model ----
(***************************************************************************)
(* A model of the YouTube comment sentiment pipeline (src/src/mainprocess.py) *)
(* and of the viewers that read its output (src/src/analyze_eval.py,         *)
(* src/src/app_streamlit.py, src/check_processed.py).                        *)
(*                                                                           *)
(* Python str values whose characters matter (file names, comment text) are  *)
(* sequences of one-character strings; Python None is the string "None"      *)
(* where the other values are strings, and the empty tuple where they are    *)
(* integers.                                                                 *)
(***************************************************************************)
EXTENDS Integers, Sequences, FiniteSets, TLC

VARIABLES
    pc,            \* position of the pipeline process
    video_id,      \* run / fetch_comments argument
    ts,            \* run: int(time.time()) taken at the start of the run
    max_pages,     \* argument: <<>> is None, <<n>> is the integer n
    max_comments,  \* argument
    comments,      \* fetch_comments: the accumulated records
    token,         \* fetch_comments: pageToken of the next request
    page,          \* fetch_comments: number of pages processed
    resp,          \* fetch_comments: the response being processed
    requests,      \* the commentThreads().list requests issued by this call
    result,        \* the value fetch_comments returned
    lexicon,       \* SentimentIntensityAnalyzer: clean text -> compound score
    df,            \* run: the processed table
    fs,            \* the files under data/: path -> file
    writes,        \* every write made so far: path, kind, video id, timestamp
    clock,         \* time.time(), in seconds
    nruns,         \* runs of the pipeline started so far
    outcome,       \* how the last run ended, and the path it returned
    viewed,        \* the file a viewer last loaded as the latest
    text,          \* clean_text: its argument
    cleaned        \* clean_text: its result

vars == <<pc, video_id, ts, max_pages, max_comments, comments, token, page, resp,
          requests, result, lexicon, df, fs, writes, clock, nruns, outcome,
          viewed, text, cleaned>>

None == "None"

(***************************************************************************)
(* Bounds of the model.                                                    *)
(***************************************************************************)
MaxApiPages == 3     \* pages of comment threads a video has at most
MaxPagesArg == 2     \* largest integer max_pages tried
MaxCap == 3          \* largest max_comments tried
MaxTicks == 1        \* seconds the clock advances at most
MaxRuns == 2         \* runs of the pipeline
MaxFetched == 3      \* longest fetched list handed to the processing steps
Band == 2            \* compound scores tried around each threshold (1e-4 units)
MaxFrags == 3        \* fragments concatenated into a clean_text argument

(***************************************************************************)
(* Sequences and Python str                                                *)
(***************************************************************************)
Last(s) == s[Len(s)]

\* s[:n] for n >= 0
Take(s, n) == SubSeq(s, 1, IF n < Len(s) THEN n ELSE Len(s))

StartsWithAt(s, i, p) ==
    /\ i + Len(p) - 1 <= Len(s)
    /\ \A k \in 1..Len(p) : s[i + k - 1] = p[k]

EndsWith(s, p) == Len(s) >= Len(p) /\ StartsWithAt(s, Len(s) - Len(p) + 1, p)

\* the characters that occur in file names, in code point order
CodePoints ==
    <<"-", ".", "0", "1", "2", "3", "4", "5", "6", "7", "8", "9", "_",
      "a", "b", "c", "d", "e", "f", "g", "h", "i", "j", "k", "l", "m",
      "n", "o", "p", "q", "r", "s", "t", "u", "v", "w", "x", "y", "z">>

Ord(c) == CHOOSE i \in DOMAIN CodePoints : CodePoints[i] = c

\* s < t for two str, as Python compares them
RECURSIVE StrLess(_, _)
StrLess(s, t) ==
    IF t = <<>> THEN FALSE
    ELSE IF s = <<>> THEN TRUE
    ELSE IF s[1] = t[1] THEN StrLess(Tail(s), Tail(t))
    ELSE Ord(s[1]) < Ord(t[1])

Digits == <<"0", "1", "2", "3", "4", "5", "6", "7", "8", "9">>

\* str(n) for an int n >= 0
RECURSIVE DecStr(_)
DecStr(n) ==
    IF n < 10 THEN <<Digits[n + 1]>>
    ELSE DecStr(n \div 10) \o <<Digits[(n % 10) + 1]>>

(***************************************************************************)
(* clean_text                                                              *)
(***************************************************************************)
Whitespace == {" ", "\n", "\t"}

IsSpace(c) == c \in Whitespace

\* the end of the longest run of non-whitespace characters starting at i
\* (i - 1 when s[i] is whitespace or i is past the end)
RECURSIVE NonSpaceEnd(_, _)
NonSpaceEnd(s, i) ==
    IF i > Len(s) \/ IsSpace(s[i]) THEN i - 1 ELSE NonSpaceEnd(s, i + 1)

\* the end of the match of  lit\S+  at i, or 0 when it does not match there
MatchLitNonSpace(s, i, lit) ==
    IF StartsWithAt(s, i, lit) /\ NonSpaceEnd(s, i + Len(lit)) >= i + Len(lit)
    THEN NonSpaceEnd(s, i + Len(lit))
    ELSE 0

Http == <<"h", "t", "t", "p">>
WwwDot == <<"w", "w", "w", ".">>

\* the end of the match of  http\S+|www\.\S+  at i, or 0
UrlMatchEnd(s, i) ==
    IF MatchLitNonSpace(s, i, Http) > 0 THEN MatchLitNonSpace(s, i, Http)
    ELSE MatchLitNonSpace(s, i, WwwDot)

\* re.sub(r"http\S+|www\.\S+", " ", t), scanning from i
RECURSIVE SubUrls(_, _)
SubUrls(s, i) ==
    IF i > Len(s) THEN <<>>
    ELSE IF UrlMatchEnd(s, i) > 0 THEN <<" ">> \o SubUrls(s, UrlMatchEnd(s, i) + 1)
    ELSE <<s[i]>> \o SubUrls(s, i + 1)

Amp == <<"&", "a", "m", "p", ";">>
Lt == <<"&", "l", "t", ";">>
Gt == <<"&", "g", "t", ";">>

\* the end of the match of  &amp;|&lt;|&gt;  at i, or 0
EntityMatchEnd(s, i) ==
    IF StartsWithAt(s, i, Amp) THEN i + Len(Amp) - 1
    ELSE IF StartsWithAt(s, i, Lt) THEN i + Len(Lt) - 1
    ELSE IF StartsWithAt(s, i, Gt) THEN i + Len(Gt) - 1
    ELSE 0

\* re.sub(r"&amp;|&lt;|&gt;", " ", t), scanning from i
RECURSIVE SubEntities(_, _)
SubEntities(s, i) ==
    IF i > Len(s) THEN <<>>
    ELSE IF EntityMatchEnd(s, i) > 0
         THEN <<" ">> \o SubEntities(s, EntityMatchEnd(s, i) + 1)
    ELSE <<s[i]>> \o SubEntities(s, i + 1)

\* the end of the run of whitespace starting at i (i - 1 when there is none)
RECURSIVE SpaceEnd(_, _)
SpaceEnd(s, i) ==
    IF i > Len(s) \/ ~IsSpace(s[i]) THEN i - 1 ELSE SpaceEnd(s, i + 1)

\* re.sub(r"\s+", " ", t), scanning from i
RECURSIVE SubSpaces(_, _)
SubSpaces(s, i) ==
    IF i > Len(s) THEN <<>>
    ELSE IF IsSpace(s[i]) THEN <<" ">> \o SubSpaces(s, SpaceEnd(s, i) + 1)
    ELSE <<s[i]>> \o SubSpaces(s, i + 1)

\* str.strip()
RECURSIVE LStrip(_)
LStrip(s) == IF s # <<>> /\ IsSpace(s[1]) THEN LStrip(Tail(s)) ELSE s

RECURSIVE RStrip(_)
RStrip(s) ==
    IF s # <<>> /\ IsSpace(Last(s)) THEN RStrip(SubSeq(s, 1, Len(s) - 1)) ELSE s

Strip(s) == RStrip(LStrip(s))

clean_text(t) == Strip(SubSpaces(SubEntities(SubUrls(t, 1), 1), 1))

(***************************************************************************)
(* The platform API: commentThreads().list                                 *)
(***************************************************************************)
VidA == <<"a">>
VidB == <<"b">>
VidC == <<"c">>
VidD == <<"d">>

\* the videos runs are started for, and those fetch_comments alone is tried on
VideoIds == {VidA, VidB, VidC}
FetchVideoIds == VideoIds \cup {VidD}

Ok == <<"o", "k">>
No == <<"n", "o">>
NoUrl == <<"n", "o", " ", "w", "w", "w", ".", "x">>

\* the comments the platform holds for a video: VidC has none
ApiComments(v) ==
    IF v = VidA THEN {[id |-> "c1", text |-> Ok]}
    ELSE IF v = VidB THEN {[id |-> "c2", text |-> NoUrl]}
    ELSE IF v = VidD THEN {[id |-> "c3", text |-> Ok], [id |-> "c4", text |-> No]}
    ELSE {}

\* one item of a response: a top-level comment and its replies
Threads(v) ==
    {[top |-> c, replies |-> <<>>] : c \in ApiComments(v)}
    \cup {[top |-> c, replies |-> <<r>>] : c \in ApiComments(v), r \in ApiComments(v)}

PageItems(v) == {<<>>} \cup {<<t>> : t \in Threads(v)}

PageTokens == <<"A", "B", "C", "D">>

\* the responses the API may give to the request for page p of video v
Responses(v, p) ==
    {[items |-> it, nextPageToken |-> None] : it \in PageItems(v)}
    \cup (IF p < MaxApiPages
          THEN {[items |-> it, nextPageToken |-> PageTokens[p]] : it \in PageItems(v)}
          ELSE {})

NoResp == [items |-> <<>>, nextPageToken |-> None]

(***************************************************************************)
(* fetch_comments                                                          *)
(***************************************************************************)
Record(c, v, parent) ==
    [comment_id |-> c.id, comment |-> c.text, video_id |-> v, parent_id |-> parent]

\* the records one item appends: the top-level comment, then its replies
RECURSIVE ReplyRecords(_, _, _)
ReplyRecords(rs, v, top_id) ==
    IF rs = <<>> THEN <<>>
    ELSE <<Record(rs[1], v, top_id)>> \o ReplyRecords(Tail(rs), v, top_id)

ItemRecords(item, v) ==
    <<Record(item.top, v, None)>> \o ReplyRecords(item.replies, v, item.top.id)

RECURSIVE PageRecords(_, _)
PageRecords(items, v) ==
    IF items = <<>> THEN <<>>
    ELSE ItemRecords(items[1], v) \o PageRecords(Tail(items), v)

\* Python truth of a token and of max_pages
Truthy(tok) == tok \notin {None, ""}
PagesTruthy(mp) == mp # <<>> /\ mp[1] # 0

\* len(comments) >= max_comments
CapReachedOffByOne(n, cap) == n > cap
CapReached(n, cap) == n >= cap

\* not token or (max_pages and page >= max_pages)
LastPage(tok, mp, pg) == ~Truthy(tok) \/ (PagesTruthy(mp) /\ pg >= mp[1])

\* return comments[:max_comments]
ReturnUntruncated(cs, cap) == cs
ReturnValue(cs, cap) == Take(cs, cap)

\* the pageToken the second attempt sends
RetryFromStart(tok) == None
RetryToken(tok) == tok

Request(p, tok, att, out) == [page |-> p, token |-> tok, attempt |-> att, outcome |-> out]

\* the values a call or a run leaves nothing behind of
ResetLocals ==
    /\ video_id' = VidC /\ ts' = 0 /\ max_pages' = <<>> /\ max_comments' = 0
    /\ comments' = <<>> /\ token' = None /\ page' = 0 /\ resp' = NoResp
    /\ requests' = <<>> /\ result' = <<>> /\ df' = <<>>

\* the exception leaves fetch_comments and run
Raise(kind) ==
    /\ pc' = "idle"
    /\ outcome' = [kind |-> kind, path |-> None]
    /\ ResetLocals

\* the first attempt of an iteration returns a response
RequestOk ==
    /\ pc = "request"
    /\ \E r \in Responses(video_id, page + 1) : resp' = r
    /\ requests' = Append(requests, Request(page + 1, token, 1, "ok"))
    /\ pc' = "page"
    /\ UNCHANGED <<video_id, ts, max_pages, max_comments, comments, token, page,
                   result, lexicon, df, fs, writes, clock, nruns, outcome, viewed,
                   text, cleaned>>

\* the first attempt raises HttpError: sleep, then try once more
RequestHttpError ==
    /\ pc = "request"
    /\ requests' = Append(requests, Request(page + 1, token, 1, "HttpError"))
    /\ pc' = "retry"
    /\ UNCHANGED <<video_id, ts, max_pages, max_comments, comments, token, page,
                   resp, result, lexicon, df, fs, writes, clock, nruns, outcome, viewed,
                   text, cleaned>>

\* the first attempt raises something that is no HttpError: nothing catches it
RequestOtherError ==
    /\ pc = "request"
    /\ Raise("Exception")
    /\ UNCHANGED <<lexicon, fs, writes, clock, nruns, viewed, text, cleaned>>

\* the second attempt returns a response
RetryOk ==
    /\ pc = "retry"
    /\ \E r \in Responses(video_id, page + 1) : resp' = r
    /\ requests' = Append(requests, Request(page + 1, RetryToken(token), 2, "ok"))
    /\ pc' = "page"
    /\ UNCHANGED <<video_id, ts, max_pages, max_comments, comments, token, page,
                   result, lexicon, df, fs, writes, clock, nruns, outcome, viewed,
                   text, cleaned>>

\* the second attempt raises (any Exception): break, and return what there is
RetryFails ==
    /\ pc = "retry"
    /\ requests' = Append(requests, Request(page + 1, RetryToken(token), 2, "Exception"))
    /\ result' = ReturnValue(comments, max_comments)
    /\ pc' = "fetched"
    /\ UNCHANGED <<video_id, ts, max_pages, max_comments, comments, token, page,
                   resp, lexicon, df, fs, writes, clock, nruns, outcome, viewed,
                   text, cleaned>>

\* the items of the response are appended, then the loop's two exits are tried
ProcessPage ==
    /\ pc = "page"
    /\ comments' = comments \o PageRecords(resp.items, video_id)
    /\ page' = page + 1
    /\ IF CapReached(Len(comments'), max_comments)
       THEN /\ token' = token
            /\ result' = ReturnValue(comments', max_comments)
            /\ pc' = "fetched"
       ELSE /\ token' = resp.nextPageToken
            /\ IF LastPage(token', max_pages, page')
               THEN /\ result' = ReturnValue(comments', max_comments)
                    /\ pc' = "fetched"
               ELSE /\ result' = result
                    /\ pc' = "request"
    /\ UNCHANGED <<video_id, ts, max_pages, max_comments, resp, requests,
                   lexicon, df, fs, writes, clock, nruns, outcome, viewed, text, cleaned>>

Fetch ==
    \/ RequestOk
    \/ RequestHttpError
    \/ RequestOtherError
    \/ RetryOk
    \/ RetryFails
    \/ ProcessPage

(***************************************************************************)
(* SentimentIntensityAnalyzer and vader_label                              *)
(***************************************************************************)
\* the clean texts of the modelled comments
CleanTexts == {<<>>, Ok, No}

\* the lexicon the runs of the pipeline use, compound scores in units of
\* 0.0001 (polarity_scores rounds them to four places); "" scores 0.0
FixedLexicon ==
    [t \in CleanTexts |-> IF t = Ok THEN 500 ELSE IF t = No THEN -500 ELSE 0]

\* 0.05 and -0.05 in units of 0.0001
PosThreshold == 500
NegThreshold == -500

vader_label_strict(c) ==
    IF c > PosThreshold THEN "Positive"
    ELSE IF c <= NegThreshold THEN "Negative"
    ELSE "Neutral"

vader_label(c) ==
    IF c >= PosThreshold THEN "Positive"
    ELSE IF c <= NegThreshold THEN "Negative"
    ELSE "Neutral"

(***************************************************************************)
(* run: the processed table                                                *)
(***************************************************************************)
\* pd.DataFrame(comments): one row per record, indexed 0..n-1
DataFrame(cs) ==
    [i \in 1..Len(cs) |->
        [index |-> i - 1, comment_id |-> cs[i].comment_id, comment |-> cs[i].comment,
         video_id |-> cs[i].video_id, parent_id |-> cs[i].parent_id]]

FirstOccurrence(f, i) == \A j \in 1..(i - 1) : f[j].comment_id # f[i].comment_id
LastOccurrence(f, i) == \A j \in (i + 1)..Len(f) : f[j].comment_id # f[i].comment_id

\* the rows from i on that are the first (the last) with their comment_id, in
\* order, each keeping its index
RECURSIVE KeepFirst(_, _)
KeepFirst(f, i) ==
    IF i > Len(f) THEN <<>>
    ELSE (IF FirstOccurrence(f, i) THEN <<f[i]>> ELSE <<>>) \o KeepFirst(f, i + 1)

RECURSIVE KeepLast(_, _)
KeepLast(f, i) ==
    IF i > Len(f) THEN <<>>
    ELSE (IF LastOccurrence(f, i) THEN <<f[i]>> ELSE <<>>) \o KeepLast(f, i + 1)

\* df.drop_duplicates(subset=["comment_id"]): keep="first"
DropDuplicatesKeepLast(f) == KeepLast(f, 1)
DropDuplicates(f) == KeepFirst(f, 1)

\* df.reset_index(drop=True)
ResetIndex(f) == [i \in 1..Len(f) |-> [f[i] EXCEPT !.index = i - 1]]

\* df["clean_comment"].apply(polarity_scores), then pd.DataFrame(list(scores)):
\* the scores in row order, indexed 0..n-1
ScoresFrame(f, lex) ==
    [i \in 1..Len(f) |-> [index |-> i - 1, compound |-> lex[clean_text(f[i].comment)]]]

\* pd.concat([a, b], axis=1): the rows are joined on the index; a and b are
\* both indexed 0..n-1 here, so every row of a has its row of b
Concat(a, b) ==
    [i \in 1..Len(a) |->
        LET s == CHOOSE r \in {b[j] : j \in 1..Len(b)} : r.index = a[i].index
        IN  [comment_id |-> a[i].comment_id, comment |-> a[i].comment,
             video_id |-> a[i].video_id, parent_id |-> a[i].parent_id,
             clean_comment |-> clean_text(a[i].comment),
             compound |-> s.compound,
             sentiment_vader |-> vader_label(s.compound)]]

\* lines 211-220 of run
Process(cs, lex) ==
    LET deduped == DropDuplicates(DataFrame(cs))
    IN  Concat(ResetIndex(deduped), ResetIndex(ScoresFrame(deduped, lex)))

(***************************************************************************)
(* run: the files                                                          *)
(***************************************************************************)
RAW_DIR == "data/raw"
PROC_DIR == "data/processed"
OUT_DIR == "data/outputs"

CommentsPrefix == <<"c", "o", "m", "m", "e", "n", "t", "s", "_">>
ProcessedPrefix == <<"p", "r", "o", "c", "e", "s", "s", "e", "d", "_">>
KpiPrefix == <<"k", "p", "i", "_">>
WordcloudPrefix == <<"w", "o", "r", "d", "c", "l", "o", "u", "d", "_">>
PositiveWord == <<"p", "o", "s", "i", "t", "i", "v", "e", "_">>
NegativeWord == <<"n", "e", "g", "a", "t", "i", "v", "e", "_">>
DotJson == <<".", "j", "s", "o", "n">>
DotCsv == <<".", "c", "s", "v">>
DotPng == <<".", "p", "n", "g">>

\* f"{prefix}{video_id}_{ts}{ext}"
FileNameWithoutTs(prefix, v, t, ext) == prefix \o v \o ext
FileName(prefix, v, t, ext) == prefix \o v \o <<"_">> \o DecStr(t) \o ext

RawPath(v, t) == [dir |-> RAW_DIR, name |-> FileName(CommentsPrefix, v, t, DotJson)]
ProcPath(v, t) == [dir |-> PROC_DIR, name |-> FileName(ProcessedPrefix, v, t, DotCsv)]
KpiPath(v, t) == [dir |-> OUT_DIR, name |-> FileName(KpiPrefix, v, t, DotCsv)]
PosPath(v, t) ==
    [dir |-> OUT_DIR, name |-> FileName(WordcloudPrefix \o PositiveWord, v, t, DotPng)]
NegPath(v, t) ==
    [dir |-> OUT_DIR, name |-> FileName(WordcloudPrefix \o NegativeWord, v, t, DotPng)]

\* open(path, "w") and the to_csv / savefig calls: the file is created or replaced
WriteFile(files, path, content) ==
    {f \in files : f.path # path} \cup {[path |-> path, content |-> content]}

WriteEvent(path, kind, v, t) == [path |-> path, kind |-> kind, video_id |-> v, ts |-> t]

\* if not comments
FetchedNothingUnchecked(cs) == FALSE
FetchedNothing(cs) == cs = <<>>

\* the clean comments of the rows labelled lab
RECURSIVE LabelTexts(_, _)
LabelTexts(f, lab) ==
    IF f = <<>> THEN <<>>
    ELSE (IF f[1].sentiment_vader = lab THEN <<f[1].clean_comment>> ELSE <<>>)
         \o LabelTexts(Tail(f), lab)

\* make_wordcloud draws when some text is longer than one character once stripped
HasCloudText(texts) == \E i \in 1..Len(texts) : Len(Strip(texts[i])) > 1

\* the KPI row
RowsLabelled(f, lab) == Cardinality({i \in 1..Len(f) : f[i].sentiment_vader = lab})
Kpi(v, f) ==
    [video_id |-> v, n_comments |-> Len(f),
     n_negative |-> RowsLabelled(f, "Negative"),
     n_positive |-> RowsLabelled(f, "Positive"),
     n_neutral |-> RowsLabelled(f, "Neutral")]

(***************************************************************************)
(* The viewers: load_latest_processed, the dashboard, check_processed      *)
(***************************************************************************)
\* PROC.glob("processed_*.csv")
Glob(files) ==
    {f \in files : /\ f.path.dir = PROC_DIR
                   /\ StartsWithAt(f.path.name, 1, ProcessedPrefix)
                   /\ EndsWith(f.path.name, DotCsv)
                   /\ Len(f.path.name) >= Len(ProcessedPrefix) + Len(DotCsv)}

\* sorted(...)[-1]: the file whose name no other name follows
LatestProcessed(files) ==
    CHOOSE f \in Glob(files) :
        \A g \in Glob(files) : g = f \/ StrLess(g.path.name, f.path.name)

(***************************************************************************)
(* run                                                                     *)
(***************************************************************************)
\* the arguments tried
PagesArgs == {<<>>} \cup {<<n>> : n \in 0..MaxPagesArg}
CapArgs == 0..MaxCap
Times == 10..(10 + MaxTicks)

\* the arguments runs are started with: one page and the cap, two pages and
\* two comments, and no page limit with a cap of no comments at all
RunArgs ==
    {[max_pages |-> <<1>>, max_comments |-> MaxCap],
     [max_pages |-> <<2>>, max_comments |-> 2],
     [max_pages |-> <<>>, max_comments |-> 0]}

NoOutcome == [kind |-> None, path |-> None]

\* ts = int(time.time()), then fetch_comments is called
StartRun ==
    /\ pc = "idle"
    /\ nruns < MaxRuns
    /\ nruns' = nruns + 1
    /\ \E v \in VideoIds : video_id' = v
    /\ \E a \in RunArgs : max_pages' = a.max_pages /\ max_comments' = a.max_comments
    /\ \E t \in Times : t >= clock /\ clock' = t /\ ts' = t
    /\ comments' = <<>> /\ token' = None /\ page' = 0
    /\ pc' = "request"
    /\ UNCHANGED <<resp, requests, result, lexicon, df, fs, writes, outcome, viewed,
                   text, cleaned>>

\* fetch_comments has returned: raise when it fetched nothing, else dump the
\* records as JSON
RunCheck ==
    /\ pc = "fetched"
    /\ IF FetchedNothing(result)
       THEN /\ Raise("RuntimeError")
            /\ UNCHANGED <<fs, writes>>
       ELSE /\ fs' = WriteFile(fs, RawPath(video_id, ts), result)
            /\ writes' = writes \cup {WriteEvent(RawPath(video_id, ts), "raw", video_id, ts)}
            /\ comments' = <<>> /\ token' = None /\ page' = 0 /\ resp' = NoResp
            /\ requests' = <<>>
            /\ pc' = "raw"
            /\ UNCHANGED <<video_id, ts, max_pages, max_comments, result, df, outcome>>
    /\ UNCHANGED <<lexicon, clock, nruns, viewed, text, cleaned>>

\* the table is built and written as CSV
RunProcess ==
    /\ pc = "raw"
    /\ df' = Process(result, lexicon)
    /\ fs' = WriteFile(fs, ProcPath(video_id, ts), df')
    /\ writes' = writes \cup {WriteEvent(ProcPath(video_id, ts), "processed", video_id, ts)}
    /\ pc' = "processed"
    /\ UNCHANGED <<video_id, ts, max_pages, max_comments, comments, token, page, resp,
                   requests, result, lexicon, clock, nruns, outcome, viewed,
                   text, cleaned>>

\* the KPI file and the word clouds are written, and run returns out_csv
RunOutputs ==
    /\ pc = "processed"
    /\ LET pos == LabelTexts(df, "Positive")
           neg == LabelTexts(df, "Negative")
           withKpi == WriteFile(fs, KpiPath(video_id, ts), Kpi(video_id, df))
           withPos == IF HasCloudText(pos)
                      THEN WriteFile(withKpi, PosPath(video_id, ts), pos)
                      ELSE withKpi
           withNeg == IF HasCloudText(neg)
                      THEN WriteFile(withPos, NegPath(video_id, ts), neg)
                      ELSE withPos
       IN  /\ fs' = withNeg
           /\ writes' = writes
                \cup {WriteEvent(KpiPath(video_id, ts), "kpi", video_id, ts)}
                \cup (IF HasCloudText(pos)
                      THEN {WriteEvent(PosPath(video_id, ts), "wordcloud_positive", video_id, ts)}
                      ELSE {})
                \cup (IF HasCloudText(neg)
                      THEN {WriteEvent(NegPath(video_id, ts), "wordcloud_negative", video_id, ts)}
                      ELSE {})
    /\ pc' = "idle"
    /\ outcome' = [kind |-> "returned", path |-> ProcPath(video_id, ts)]
    /\ ResetLocals
    /\ UNCHANGED <<lexicon, clock, nruns, viewed, text, cleaned>>

\* a viewer loads the latest processed file
View ==
    /\ Glob(fs) # {}
    /\ viewed # LatestProcessed(fs).path
    /\ viewed' = LatestProcessed(fs).path
    /\ UNCHANGED <<pc, video_id, ts, max_pages, max_comments, comments, token, page,
                   resp, requests, result, lexicon, df, fs, writes, clock, nruns,
                   outcome, text, cleaned>>

NoPath == [dir |-> None, name |-> <<>>]

Init ==
    /\ pc = "idle"
    /\ video_id = VidC /\ ts = 0 /\ max_pages = <<>> /\ max_comments = 0
    /\ comments = <<>> /\ token = None /\ page = 0 /\ resp = NoResp
    /\ requests = <<>> /\ result = <<>>
    /\ lexicon = FixedLexicon
    /\ df = <<>> /\ fs = {} /\ writes = {} /\ clock = 10 /\ nruns = 0
    /\ outcome = NoOutcome /\ viewed = NoPath
    /\ text = <<>> /\ cleaned = <<>>

Next ==
    \/ StartRun
    \/ Fetch
    \/ RunCheck
    \/ RunProcess
    \/ RunOutputs
    \/ View

Spec == Init /\ [][Next]_vars

(***************************************************************************)
(* fetch_comments alone, for every argument                                *)
(***************************************************************************)
InitFetch ==
    /\ pc = "request"
    /\ video_id \in FetchVideoIds
    /\ ts = 10
    /\ max_pages \in PagesArgs
    /\ max_comments \in CapArgs
    /\ comments = <<>> /\ token = None /\ page = 0 /\ resp = NoResp
    /\ requests = <<>> /\ result = <<>>
    /\ lexicon = FixedLexicon
    /\ df = <<>> /\ fs = {} /\ writes = {} /\ clock = 10 /\ nruns = 1
    /\ outcome = NoOutcome /\ viewed = NoPath
    /\ text = <<>> /\ cleaned = <<>>

SpecFetch == InitFetch /\ [][Fetch]_vars

(***************************************************************************)
(* The processing steps of run alone, for every fetched list and lexicon   *)
(***************************************************************************)
\* records as fetch_comments builds them; two share a comment_id, one has none
ProcRecords ==
    {[comment_id |-> "c1", comment |-> Ok, video_id |-> VidA, parent_id |-> None],
     [comment_id |-> "c1", comment |-> No, video_id |-> VidA, parent_id |-> None],
     [comment_id |-> "c2", comment |-> Gt, video_id |-> VidA, parent_id |-> "c1"],
     [comment_id |-> None, comment |-> NoUrl, video_id |-> VidA, parent_id |-> None]}

\* the lists of at most n records
RECURSIVE ListsUpTo(_)
ListsUpTo(n) ==
    IF n = 0 THEN {<<>>}
    ELSE ListsUpTo(n - 1)
         \cup {Append(l, r) : l \in {m \in ListsUpTo(n - 1) : Len(m) = n - 1},
                              r \in ProcRecords}

\* compound scores around the two thresholds, and 0.0, 1.0 and -1.0
Compounds ==
    {0, 10000, -10000}
    \cup ((PosThreshold - Band)..(PosThreshold + Band))
    \cup ((NegThreshold - Band)..(NegThreshold + Band))

Lexicons == {l \in [CleanTexts -> Compounds] : l[<<>>] = 0}

\* run has just written the raw JSON of the list it fetched
InitProcess ==
    /\ pc = "raw"
    /\ video_id = VidA /\ ts = 10 /\ max_pages = <<>> /\ max_comments = MaxFetched
    /\ comments = <<>> /\ token = None /\ page = 0 /\ resp = NoResp
    /\ requests = <<>>
    /\ result \in ListsUpTo(MaxFetched) \ {<<>>}
    /\ lexicon \in Lexicons
    /\ df = <<>>
    /\ fs = WriteFile({}, RawPath(VidA, 10), result)
    /\ writes = {WriteEvent(RawPath(VidA, 10), "raw", VidA, 10)}
    /\ clock = 10 /\ nruns = 1
    /\ outcome = NoOutcome /\ viewed = NoPath
    /\ text = <<>> /\ cleaned = <<>>

NextProcess == RunProcess \/ RunOutputs

SpecProcess == InitProcess /\ [][NextProcess]_vars

(***************************************************************************)
(* clean_text alone                                                        *)
(***************************************************************************)
Quot == <<"&", "q", "u", "o", "t", ";">>

\* the pieces the arguments are put together from
Fragments ==
    {Http, WwwDot, Amp, Lt, Gt, Quot, <<" ">>, <<"\n">>, <<"x">>, <<"&">>,
     <<"h", "t">>, <<"t", "p">>, <<"a", "m", "p", ";">>}

RECURSIVE Texts(_)
Texts(n) ==
    IF n = 0 THEN {<<>>}
    ELSE Texts(n - 1) \cup {s \o f : s \in Texts(n - 1), f \in Fragments}

InitClean ==
    /\ pc = "clean"
    /\ text \in Texts(MaxFrags)
    /\ cleaned = <<>>
    /\ video_id = VidC /\ ts = 0 /\ max_pages = <<>> /\ max_comments = 0
    /\ comments = <<>> /\ token = None /\ page = 0 /\ resp = NoResp
    /\ requests = <<>> /\ result = <<>>
    /\ lexicon = FixedLexicon
    /\ df = <<>> /\ fs = {} /\ writes = {} /\ clock = 10 /\ nruns = 0
    /\ outcome = NoOutcome /\ viewed = NoPath

CleanText ==
    /\ pc = "clean"
    /\ cleaned' = clean_text(text)
    /\ pc' = "cleaned"
    /\ UNCHANGED <<video_id, ts, max_pages, max_comments, comments, token, page, resp,
                   requests, result, lexicon, df, fs, writes, clock, nruns, outcome,
                   viewed, text>>

SpecClean == InitClean /\ [][CleanText]_vars

(***************************************************************************)
(* Properties of fetch_comments (checked under SpecFetch)                  *)
(***************************************************************************)
\* C1: pagination stops at the comment cap or when no next-page token is
\* returned: when the page just processed brings the number of accumulated
\* records to max_comments or more, or its response carries no nextPageToken,
\* the function is at its return and issues no further request.
C1_PaginationStops ==
    /\ [][(pc = "page" /\ (Len(comments') >= max_comments
                           \/ resp.nextPageToken = None))
            => (pc' = "fetched" /\ requests' = requests)]_vars
    /\ [][pc = "fetched" => requests' = requests]_vars

\* a page with a next-page token brought the count to the cap, and the call returned
C1_Witness ==
    /\ pc = "fetched" /\ page = 1
    /\ resp.nextPageToken # None
    /\ max_comments > 0 /\ Len(comments) >= max_comments
    /\ max_pages = <<>>

\* C2: fetch_comments returns at most max_comments records (max_comments >= 0),
\* also when one page overshoots the cap, and what it returns is a prefix of
\* the records accumulated in fetch order.
C2_AtMostCap ==
    pc = "fetched" =>
        /\ Len(result) <= max_comments
        /\ Len(result) <= Len(comments)
        /\ \A i \in 1..Len(result) : result[i] = comments[i]
        /\ (Len(comments) <= max_comments => result = comments)

\* a page of a comment and its reply overshot a cap of one
C2_Witness ==
    /\ pc = "fetched" /\ page = 1
    /\ max_comments = 1 /\ Len(comments) = 2 /\ Len(result) = 1

\* C6: a page request that raises HttpError is issued exactly once more with
\* the same page token; a retry that succeeds has its page processed, a retry
\* that fails ends the loop and the records of the earlier pages are returned,
\* cut to max_comments; no page is requested more than twice.
C6_SingleRetry ==
    \A i \in DOMAIN requests :
        LET r == requests[i] IN
        /\ r.attempt \in {1, 2}
        /\ Cardinality({j \in DOMAIN requests : requests[j].page = r.page}) <= 2
        /\ r.attempt = 1 =>
              /\ i > 1 => requests[i - 1].outcome = "ok"
                          /\ r.page = requests[i - 1].page + 1
              /\ r.outcome = "HttpError" =>
                    IF i = Len(requests) THEN pc = "retry"
                    ELSE requests[i + 1].attempt = 2
        /\ r.attempt = 2 =>
              /\ i > 1
              /\ requests[i - 1].attempt = 1
              /\ requests[i - 1].outcome = "HttpError"
              /\ requests[i - 1].token = r.token
              /\ requests[i - 1].page = r.page
        /\ r.outcome = "ok" =>
              IF i = Len(requests) /\ pc = "page" THEN page = r.page - 1
              ELSE page >= r.page
        /\ (r.attempt = 2 /\ r.outcome # "ok") =>
              /\ i = Len(requests)
              /\ pc = "fetched"
              /\ page = r.page - 1
              /\ result = Take(comments, max_comments)

\* the second page failed twice and the records of the first were returned
C6_Witness ==
    /\ pc = "fetched" /\ page = 1
    /\ Len(requests) >= 3
    /\ Last(requests).attempt = 2 /\ Last(requests).outcome = "Exception"
    /\ Last(requests).token # None
    /\ result # <<>> /\ result = comments

\* C9: called with an integer max_pages >= 0, fetch_comments processes no more
\* than max_pages pages.
C9_MaxPagesBound == max_pages # <<>> => page <= max_pages[1]

\* the part of C9 the code keeps: an integer max_pages >= 1 bounds the pages
PagesBoundedFromOne == (max_pages # <<>> /\ max_pages[1] >= 1) => page <= max_pages[1]

(***************************************************************************)
(* Properties of the processing steps (checked under SpecProcess)          *)
(***************************************************************************)
\* the tables written as processed CSV
ProcessedTables == {f.content : f \in Glob(fs)}

\* C3: vader_label maps a compound score c to Positive iff c >= 0.05, to
\* Negative iff c <= -0.05 and to Neutral otherwise, and every row of the
\* processed table carries the label of its own compound score, which is the
\* score of its own clean comment.
C3_LabelThresholds ==
    \A tab \in ProcessedTables : \A i \in 1..Len(tab) :
        LET r == tab[i] IN
        /\ r.sentiment_vader \in {"Positive", "Negative", "Neutral"}
        /\ r.sentiment_vader = "Positive" <=> r.compound >= 500
        /\ r.sentiment_vader = "Negative" <=> r.compound <= -500
        /\ r.sentiment_vader = "Neutral" <=> (r.compound > -500 /\ r.compound < 500)
        /\ r.clean_comment = clean_text(r.comment)
        /\ r.compound = lexicon[r.clean_comment]

\* a table with a row at each threshold
C3_Witness ==
    \E tab \in ProcessedTables : \E i, j \in 1..Len(tab) :
        /\ tab[i].compound = 500 /\ tab[i].sentiment_vader = "Positive"
        /\ tab[j].compound = -500 /\ tab[j].sentiment_vader = "Negative"

\* C4: the processed table has exactly one row for each distinct comment_id of
\* the fetched list, the first fetched occurrence, and no two rows share a
\* comment_id.
C4_DedupById ==
    pc = "processed" =>
        LET ids == {result[i].comment_id : i \in 1..Len(result)}
            First(id) == CHOOSE i \in 1..Len(result) :
                            /\ result[i].comment_id = id
                            /\ \A j \in 1..(i - 1) : result[j].comment_id # id
        IN  /\ ProcessedTables = {df}
            /\ Len(df) = Cardinality(ids)
            /\ \A i, j \in 1..Len(df) : df[i].comment_id = df[j].comment_id => i = j
            /\ \A id \in ids : \E i \in 1..Len(df) :
                  /\ df[i].comment_id = id
                  /\ df[i].comment = result[First(id)].comment
                  /\ df[i].parent_id = result[First(id)].parent_id

\* a later record with the comment_id of an earlier one, and other text, was dropped
C4_Witness ==
    /\ pc = "processed"
    /\ Len(df) < Len(result)
    /\ \E i, j \in 1..Len(result) :
          /\ i < j
          /\ result[i].comment_id = result[j].comment_id
          /\ result[i].comment # result[j].comment

(***************************************************************************)
(* Properties of the runs and the viewers (checked under Spec)             *)
(***************************************************************************)
FileAt(path) == CHOOSE f \in fs : f.path = path

\* the write of the processed CSV the last run returned
LastWrite == CHOOSE w \in writes : w.path = outcome.path

\* C5: after any sequence of completed runs at increasing timestamps, for the
\* same or for different video ids, the processed table the viewers load (the
\* last of the sorted processed_*.csv) is the table written by the most
\* recent run.
C5_LastWriteWins ==
    (/\ pc = "idle" /\ outcome.kind = "returned"
     /\ \A w \in writes :
           (w.video_id # LastWrite.video_id \/ w.ts # LastWrite.ts) => w.ts < LastWrite.ts)
        => LatestProcessed(fs).content = FileAt(outcome.path).content

\* the part of C5 the code keeps: runs for one video id, at timestamps of one
\* length in digits
LastWriteWinsForOneVideo ==
    (/\ pc = "idle" /\ outcome.kind = "returned"
     /\ \A w \in writes :
           /\ w.video_id = LastWrite.video_id
           /\ Len(DecStr(w.ts)) = Len(DecStr(LastWrite.ts))
           /\ w.ts <= LastWrite.ts)
        => LatestProcessed(fs).path = outcome.path

\* data/raw/comments_<id>_<ts>.json and the other four names, spelled out
ExpectedPath(kind, v, t) ==
    LET tail == v \o <<"_">> \o DecStr(t) IN
    IF kind = "raw" THEN
        [dir |-> "data/raw",
         name |-> <<"c", "o", "m", "m", "e", "n", "t", "s", "_">> \o tail
                  \o <<".", "j", "s", "o", "n">>]
    ELSE IF kind = "processed" THEN
        [dir |-> "data/processed",
         name |-> <<"p", "r", "o", "c", "e", "s", "s", "e", "d", "_">> \o tail
                  \o <<".", "c", "s", "v">>]
    ELSE IF kind = "kpi" THEN
        [dir |-> "data/outputs",
         name |-> <<"k", "p", "i", "_">> \o tail \o <<".", "c", "s", "v">>]
    ELSE IF kind = "wordcloud_positive" THEN
        [dir |-> "data/outputs",
         name |-> <<"w", "o", "r", "d", "c", "l", "o", "u", "d", "_",
                    "p", "o", "s", "i", "t", "i", "v", "e", "_">> \o tail
                  \o <<".", "p", "n", "g">>]
    ELSE
        [dir |-> "data/outputs",
         name |-> <<"w", "o", "r", "d", "c", "l", "o", "u", "d", "_",
                    "n", "e", "g", "a", "t", "i", "v", "e", "_">> \o tail
                  \o <<".", "p", "n", "g">>]

\* C8: the paths run writes are a function of the video id and the timestamp:
\* every write goes to the path named after its kind, id and timestamp, writes
\* of runs with equal (id, timestamp) and kind go to one path, writes that
\* differ in id or timestamp never share a path, and run returns the path of
\* the processed CSV it wrote.
C8_DeterministicPaths ==
    /\ [](\A w \in writes : w.path = ExpectedPath(w.kind, w.video_id, w.ts))
    /\ [](\A w1, w2 \in writes :
            /\ (w1.kind = w2.kind /\ w1.video_id = w2.video_id /\ w1.ts = w2.ts)
                  => w1.path = w2.path
            /\ (w1.video_id # w2.video_id \/ w1.ts # w2.ts) => w1.path # w2.path)
    /\ [](\A f \in fs : \E w \in writes : w.path = f.path)
    /\ [][(pc = "processed" /\ pc' = "idle") =>
            /\ outcome' = [kind |-> "returned",
                           path |-> ExpectedPath("processed", video_id, ts)]
            /\ [path |-> outcome'.path, content |-> df] \in fs
            /\ [path |-> outcome'.path, content |-> df] \in fs']_vars

\* two runs that differ in video id or timestamp have written, the last returned
C8_Witness ==
    /\ pc = "idle" /\ outcome.kind = "returned"
    /\ Cardinality({<<w.video_id, w.ts>> : w \in writes}) >= 2
    /\ \E w \in writes : w.kind = "wordcloud_positive"
    /\ \E w \in writes : w.kind = "wordcloud_negative"

\* C10: a run whose fetch yields no records raises RuntimeError and creates or
\* changes no file, so the viewers' latest file is what it was; and a
\* processed CSV is written only after the raw JSON of the same run.
C10_NothingWrittenWhenEmpty ==
    /\ [][(pc = "fetched" /\ result = <<>> /\ pc' # pc) =>
            /\ pc' = "idle"
            /\ outcome'.kind = "RuntimeError"
            /\ fs' = fs
            /\ writes' = writes]_vars
    /\ [][fs' # fs => result # <<>>]_vars
    /\ [](\A v \in VideoIds, t \in Times :
            (\E f \in fs : f.path = ProcPath(v, t)) =>
                (\E g \in fs : g.path = RawPath(v, t)))
    /\ [](pc = "processed" =>
            /\ [path |-> RawPath(video_id, ts), content |-> result] \in fs
            /\ [path |-> ProcPath(video_id, ts), content |-> df] \in fs)

\* a run that fetched nothing failed after an earlier run had written its files
C10_Witness ==
    /\ pc = "idle" /\ outcome.kind = "RuntimeError"
    /\ Glob(fs) # {}

(***************************************************************************)
(* Properties of clean_text (checked under SpecClean)                      *)
(***************************************************************************)
\* a token has a substring that starts with http or www. and goes on
HasUrl(s) ==
    \E i \in 1..Len(s) :
        /\ StartsWithAt(s, i, <<"h", "t", "t", "p">>) \/ StartsWithAt(s, i, <<"w", "w", "w", ".">>)
        /\ i + 4 <= Len(s)
        /\ ~IsSpace(s[i + 4])

HtmlEntities ==
    {<<"&", "a", "m", "p", ";">>, <<"&", "l", "t", ";">>, <<"&", "g", "t", ";">>,
     <<"&", "q", "u", "o", "t", ";">>}

HasEntity(s, entities) == \E e \in entities : \E i \in 1..Len(s) : StartsWithAt(s, i, e)

Collapsed(s) ==
    /\ \A i \in 1..Len(s) : IsSpace(s[i]) => s[i] = " "
    /\ \A i \in 1..(Len(s) - 1) : ~(IsSpace(s[i]) /\ IsSpace(s[i + 1]))
    /\ s # <<>> => ~IsSpace(s[1]) /\ ~IsSpace(s[Len(s)])

\* C7: the result of clean_text holds no URL and no HTML entity, has no
\* leading or trailing whitespace and has every whitespace run collapsed to
\* one space.
C7_CleanStripsUrlsAndEntities ==
    pc = "cleaned" =>
        /\ ~HasUrl(cleaned)
        /\ ~HasEntity(cleaned, HtmlEntities)
        /\ Collapsed(cleaned)

\* the part of C7 the code keeps: no URL, none of &amp; &lt; &gt;, whitespace collapsed
CleanStripsUrlsAndThreeEntities ==
    pc = "cleaned" =>
        /\ ~HasUrl(cleaned)
        /\ ~HasEntity(cleaned, {<<"&", "a", "m", "p", ";">>, <<"&", "l", "t", ";">>,
                                <<"&", "g", "t", ";">>})
        /\ Collapsed(cleaned)

====
